---------------------------- MODULE Spec2Model ----------------------------
(***************************************************************************)
(* A model of the wavelet-bench benchmark pipeline:                        *)
(*   scripts/bench.py  - CoreVideo, DstVideo, VideoEnc, psnr_to_mse        *)
(*   scripts/stats.py  - write_stats and the batch main()                  *)
(*                                                                         *)
(* Four specifications share the module:                                   *)
(*   Spec      one batch run of stats.py main(), cell by cell              *)
(*   SpecRuns  several batch runs appending to the same CSV path           *)
(*   SpecPipe  the processes of one VideoEnc.encode() call                 *)
(*   SpecW     the weighted-XPSNR derivation applied to plane values       *)
(*                                                                         *)
(* Units.  PSNR and the XPSNR planes are integers in tenths of a dB, the    *)
(* derived W-XPSNR is in millionths of a dB, SSIM is in 1/1000, times are  *)
(* in milliseconds, sizes in bytes.  Inside the W-XPSNR derivation Python  *)
(* floats are 7-significant-digit decimal floating point numbers [m, e]    *)
(* (value m * 10^e, 1000000 <= m <= 9999999).                              *)
(***************************************************************************)
EXTENDS Integers, Sequences, FiniteSets, TLC

(***************************************************************************)
(* Bounds of the model.                                                    *)
(***************************************************************************)
LowDb == 4
HighDb == 42
MaxVideos == 2
MaxQLen == 2
MaxDeviations == 1
MaxRuns == 2
MaxFrames == 3
PipeCap == 1

(***************************************************************************)
(* Decimal floating point: the arithmetic of bench.py lines 165-170, 396.  *)
(* Every operation rounds its result to 7 significant digits.              *)
(***************************************************************************)
RECURSIVE NormDown(_, _)
NormDown(m, e) ==
    IF m > 9999999 THEN NormDown((m + 5) \div 10, e + 1) ELSE [m |-> m, e |-> e]

RECURSIVE NormUp(_, _)
NormUp(m, e) == IF m < 1000000 THEN NormUp(m * 10, e - 1) ELSE [m |-> m, e |-> e]

\* A positive number m * 10^e brought to a 7-digit mantissa.
Norm(m, e) == IF m > 9999999 THEN NormDown(m, e) ELSE NormUp(m, e)

FromInt(n) == Norm(n, 0)

RECURSIVE Pow10Int(_)
Pow10Int(d) == IF d = 0 THEN 1 ELSE 10 * Pow10Int(d - 1)

\* n more digits of the quotient q of a division by b with remainder r.
RECURSIVE LongDiv(_, _, _, _)
LongDiv(q, r, b, n) ==
    IF n = 0 THEN [q |-> q, r |-> r]
    ELSE LongDiv(q * 10 + ((r * 10) \div b), (r * 10) % b, b, n - 1)

\* a / b, rounded to nearest.
FDiv(a, b) ==
    LET d == LongDiv(a.m \div b.m, a.m % b.m, b.m, 7)
    IN  Norm(IF 2 * d.r >= b.m THEN d.q + 1 ELSE d.q, a.e - b.e - 7)

\* a + b, with one guard digit.
FAdd(a, b) ==
    LET hi == IF a.e >= b.e THEN a ELSE b
        lo == IF a.e >= b.e THEN b ELSE a
        d  == hi.e - lo.e
    IN  IF d > 7 THEN hi
        ELSE Norm(hi.m * 10 + ((lo.m * 10) \div Pow10Int(d)), hi.e - 1)

\* k * a for a small positive integer k.
FScale(k, a) == Norm(k * a.m, a.e)

\* round(1000000 * 10^(j/100)) for j = 0..100: the mantissas of 10 ** x.
Pow10Table ==
    <<  1000000, 1023293, 1047129, 1071519, 1096478, 1122018, 1148154, 1174898,
       1202264, 1230269, 1258925, 1288250, 1318257, 1348963, 1380384, 1412538,
       1445440, 1479108, 1513561, 1548817, 1584893, 1621810, 1659587, 1698244,
       1737801, 1778279, 1819701, 1862087, 1905461, 1949845, 1995262, 2041738,
       2089296, 2137962, 2187762, 2238721, 2290868, 2344229, 2398833, 2454709,
       2511886, 2570396, 2630268, 2691535, 2754229, 2818383, 2884032, 2951209,
       3019952, 3090295, 3162278, 3235937, 3311311, 3388442, 3467369, 3548134,
       3630781, 3715352, 3801894, 3890451, 3981072, 4073803, 4168694, 4265795,
       4365158, 4466836, 4570882, 4677351, 4786301, 4897788, 5011872, 5128614,
       5248075, 5370318, 5495409, 5623413, 5754399, 5888437, 6025596, 6165950,
       6309573, 6456542, 6606934, 6760830, 6918310, 7079458, 7244360, 7413102,
       7585776, 7762471, 7943282, 8128305, 8317638, 8511380, 8709636, 8912509,
       9120108, 9332543, 9549926, 9772372, 10000000 >>

\* 10 ** (p / 10) for p dB given in tenths of a dB (p >= 0).
Pow10(p) == [m |-> Pow10Table[(p % 100) + 1], e |-> (p \div 100) - 6]

\* 10.0 * math.log10(x) in millionths of a dB, rounded to 7 significant
\* digits; the logarithm is interpolated between the entries of Pow10Table.
Log10dB(x) ==
    LET j   == CHOOSE n \in 0..99 :
                   Pow10Table[n + 1] <= x.m /\ x.m < Pow10Table[n + 2]
        den == Pow10Table[j + 2] - Pow10Table[j + 1]
        d   == LongDiv(0, x.m - Pow10Table[j + 1], den, 5)
        f   == IF 2 * d.r >= den THEN d.q + 1 ELSE d.q
        R   == 10000000 * (x.e + 6) + 100000 * j + f
    IN  IF R >= 10000000 THEN ((R + 5) \div 10) * 10 ELSE R

maxval == 255

\* psnr_to_mse(p, m) = (m**2) / (10 ** (p / 10))
psnr_to_mse(p, m) == FDiv(FromInt(m * m), Pow10(p))

\* Variant: the weighted sum divided by 5.0 instead of 6.0.
w_xpsnr_mse_div5(y, u, v) ==
    FDiv(FAdd(FAdd(FScale(4, psnr_to_mse(y, maxval)), psnr_to_mse(u, maxval)),
              psnr_to_mse(v, maxval)),
         FromInt(5))

\* ((4.0 * mse_y) + mse_u + mse_v) / 6.0
w_xpsnr_mse(y, u, v) ==
    FDiv(FAdd(FAdd(FScale(4, psnr_to_mse(y, maxval)), psnr_to_mse(u, maxval)),
              psnr_to_mse(v, maxval)),
         FromInt(6))

\* w_xpsnr = 10.0 * math.log10((maxval**2) / w_xpsnr_mse)
WeightedXpsnr(y, u, v) ==
    Log10dB(FDiv(FromInt(maxval * maxval), w_xpsnr_mse(y, u, v)))

Min3(a, b, c) == IF a <= b /\ a <= c THEN a ELSE IF b <= c THEN b ELSE c
Max3(a, b, c) == IF a >= b /\ a >= c THEN a ELSE IF b >= c THEN b ELSE c


(***************************************************************************)
(* State.                                                                  *)
(***************************************************************************)
VARIABLES
    \* stats.py main(): the parsed command line
    src_pth,            \* args.inputs: the source videos, in input order
    quality_list,       \* [int(q) for q in args.quality.split()]
    enc,                \* args.encoder
    clean,              \* args.keep (store_false: TRUE unless --keep is given)
    \* stats.py main(): locals
    i,                  \* number of videos whose cells are all done
    qi,                 \* position in quality_list of the current cell
    k,                  \* position in quality_list of the next summary row
    pc,                 \* where main() is
    s,                  \* the CoreVideo of the current source
    e,                  \* the VideoEnc of the current cell
    v,                  \* the DstVideo of the current cell
    cumulative_times, cumulative_sizes, cumulative_psnr, cumulative_ssim,
    cumulative_wxpsnr,
    avg_time, avg_size, avg_psnr, avg_ssim, avg_wxpsnr,
    \* the world outside the process
    fs,                 \* the encoded / decoded artifacts on disk
    csv_file,           \* the CSV report: [exists, lines]
    returncode,         \* exit status of the last encode process (never read)
    probe_rc,           \* exit status of the last ffprobe call
    stderr,             \* the report of the last metric pass
    err,                \* the uncaught exception that ended main(): [exc, frame]
    deviations,         \* non-nominal answers of the external tools so far
    run,                \* number of the batch run
    \* one VideoEnc.encode() call, process by process (SpecPipe)
    pipe,
    \* the weighted-XPSNR derivation on its own (SpecW)
    planes, w_xpsnr

inputs == <<src_pth, quality_list, enc, clean>>
locals == <<i, qi, k, pc, s, e, v>>
tables == <<cumulative_times, cumulative_sizes, cumulative_psnr,
            cumulative_ssim, cumulative_wxpsnr>>
avgs   == <<avg_time, avg_size, avg_psnr, avg_ssim, avg_wxpsnr>>
world  == <<fs, csv_file, returncode, probe_rc, stderr, err, deviations, run>>
batchVars == <<inputs, locals, tables, avgs, world>>
vars == <<batchVars, pipe, planes, w_xpsnr>>

(***************************************************************************)
(* Inputs.                                                                 *)
(***************************************************************************)
Encoders == {"snow", "dsv2", "dirac", "x264"}
Qualities == {20, 30}
QualityLists == UNION {[1..n -> Qualities] : n \in 0..MaxQLen}
SourceLists == {[j \in 1..n |-> j] : n \in 1..MaxVideos}

Range(f) == {f[x] : x \in DOMAIN f}

(***************************************************************************)
(* Paths.  A path is [stem, ext]; the stem of a derived destination is     *)
(* <<source stem, encoder, q>>.                                            *)
(***************************************************************************)
EmptyPath == [stem |-> <<>>, ext |-> ""]
SourcePath(j) == [stem |-> <<j>>, ext |-> "y4m"]

get_ext(encoder) ==
    IF encoder = "dirac" THEN "mkv"
    ELSE IF encoder = "snow" THEN "avi"
    ELSE IF encoder = "x264" THEN "264"
    ELSE "dsv"

\* f"{base_name}_{encoder}_q{q}.{ext}"
DstPth(src, q, encoder) ==
    [stem |-> src.path.stem \o <<encoder, q>>, ext |-> get_ext(encoder)]

\* f"{os.path.splitext(self.dst_pth)[0]}_decoded.y4m"
dec_y4m_path(dst_pth) == [stem |-> Append(dst_pth.stem, "_decoded"), ext |-> "y4m"]

(***************************************************************************)
(* The answers of the external tools.  Nominal answers are functions of    *)
(* the source video and the quality value; a run may see up to             *)
(* MaxDeviations answers that are not nominal.                             *)
(***************************************************************************)
NominalTime(j, q) == 1000 * j + 10 * q
NominalSize(j, q) == 2 * (100 - q) + j
NominalPsnr(j, q) == 440 - 10 * j - q
NominalSsim(j, q) == 990 - q - j
NominalY(j, q)    == 440 - 10 * j - q

\* ffprobe on a source video: "ok" or a non-zero exit status.
ProbeAnswers(dev) == {"ok"} \cup (IF dev < MaxDeviations THEN {"fail"} ELSE {})

\* The encoder process: exit status, what it left at the destination path,
\* the wall-clock time it took, the size of what it wrote.
EncodeAnswers(j, q, dev) ==
    {[status |-> 0, wrote |-> "valid", time |-> NominalTime(j, q),
      size |-> NominalSize(j, q), dev |-> 0]}
    \cup
    (IF dev < MaxDeviations
     THEN {[status |-> 1, wrote |-> "valid", time |-> NominalTime(j, q) \div 2,
            size |-> NominalSize(j, q) \div 2, dev |-> 1],
           [status |-> 1, wrote |-> "corrupt", time |-> NominalTime(j, q) \div 2,
            size |-> 1, dev |-> 1],
           [status |-> 1, wrote |-> "none", time |-> 1, size |-> 0, dev |-> 1]}
     ELSE {})

\* The dsv2 decoder: "ok" or a failure that writes nothing.
DecodeAnswers(dev) == {"ok"} \cup (IF dev < MaxDeviations THEN {"fail"} ELSE {})

\* One field of a report: a key followed by a value; numeric when the
\* value's text has the form digits "." digits (so not "inf" or "nan").
Field(key, numeric, val) == [key |-> key, numeric |-> numeric, val |-> val]

\* stderr of the psnr/ssim pass.
PsnrSsimReports(j, q, dev) ==
    {[text |-> <<Field("average:", TRUE, NominalPsnr(j, q)),
                 Field("All:", TRUE, NominalSsim(j, q))>>, dev |-> 0]}
    \cup
    (IF dev < MaxDeviations
     THEN {[text |-> <<Field("average:", FALSE, 0),
                       Field("All:", TRUE, 1000)>>, dev |-> 1],
           [text |-> <<Field("average:", TRUE, NominalPsnr(j, q))>>, dev |-> 1]}
     ELSE {})

\* stderr of the xpsnr pass: the values after "XPSNR y:", "u:" and "v:".
XpsnrReports(j, q, dev) ==
    {[text |-> <<Field("XPSNR y:", TRUE, NominalY(j, q)),
                 Field("u:", TRUE, NominalY(j, q) + 20),
                 Field("v:", TRUE, NominalY(j, q) + 20)>>, dev |-> 0]}
    \cup
    (IF dev < MaxDeviations
     THEN {[text |-> <<Field("XPSNR y:", TRUE, NominalY(j, q)),
                       Field("u:", FALSE, 0), Field("v:", FALSE, 0)>>, dev |-> 1]}
     ELSE {})

(***************************************************************************)
(* bench.py: CoreVideo and DstVideo.                                       *)
(***************************************************************************)
None == [path |-> EmptyPath]

\* Variant: the exit status of ffprobe is not looked at.
ProbeNeverRaises(answer) == FALSE

\* ffprobe exited non-zero: get_video_dimensions raises RuntimeError.
ProbeRaises(answer) == answer # "ok"

\* CoreVideo.__init__ on a source whose probe answered.
CoreVideo(j) ==
    [path |-> SourcePath(j), name |-> SourcePath(j), size |-> 1000 * j,
     video_width |-> 64, video_height |-> 64]

\* ffprobe on an artifact: it answers for a file that is there and holds a
\* readable stream.
ArtifactProbeOk(pth, fsys) == pth \in DOMAIN fsys /\ fsys[pth].valid

\* Variant: the dimensions are probed before the size is read.
DstVideoProbeFirst(pth, e_pth, fsys) ==
    IF ~ArtifactProbeOk(pth, fsys)
    THEN [raised |-> "RuntimeError", video |-> None]
    ELSE IF e_pth \notin DOMAIN fsys
    THEN [raised |-> "FileNotFoundError", video |-> None]
    ELSE [raised |-> "",
          video |-> [path |-> pth, enc_path |-> e_pth, name |-> pth,
                     size |-> fsys[e_pth].size,
                     video_width |-> 64, video_height |-> 64,
                     xpsnr_y |-> 0, xpsnr_u |-> 0, xpsnr_v |-> 0,
                     w_xpsnr |-> 0, psnr |-> 0, ssim |-> 0]]

\* DstVideo.__init__(pth, e_pth): the size of e_pth, then the dimensions of
\* pth, then every score at 0.0.  raised names the exception, "" when none.
DstVideo(pth, e_pth, fsys) ==
    IF e_pth \notin DOMAIN fsys
    THEN [raised |-> "FileNotFoundError", video |-> None]
    ELSE IF ~ArtifactProbeOk(pth, fsys)
    THEN [raised |-> "RuntimeError", video |-> None]
    ELSE [raised |-> "",
          video |-> [path |-> pth, enc_path |-> e_pth, name |-> pth,
                     size |-> fsys[e_pth].size,
                     video_width |-> 64, video_height |-> 64,
                     xpsnr_y |-> 0, xpsnr_u |-> 0, xpsnr_v |-> 0,
                     w_xpsnr |-> 0, psnr |-> 0, ssim |-> 0]]

\* re.search(key + r"(\d+\.\d+)", stderr): the first numeric field with the key.
re_search(key, text) ==
    LET hits == {n \in 1..Len(text) : text[n].key = key /\ text[n].numeric}
    IN  IF hits = {}
        THEN [matched |-> FALSE, val |-> 0]
        ELSE [matched |-> TRUE,
              val |-> text[CHOOSE n \in hits : \A h \in hits : n <= h].val]

\* Variant: a missing match leaves a -1 sentinel.
ParsePsnrSentinel(text) ==
    LET m == re_search("average:", text) IN IF m.matched THEN m.val ELSE -1

\* self.psnr = float(psnr_match.group(1)) if psnr_match else 0
ParsePsnr(text) ==
    LET m == re_search("average:", text) IN IF m.matched THEN m.val ELSE 0

\* self.ssim = float(ssim_match.group(1)) if ssim_match else 0
ParseSsim(text) ==
    LET m == re_search("All:", text) IN IF m.matched THEN m.val ELSE 0

\* re.search(r"XPSNR\s+y:\s*(\d+\.\d+)\s+u:\s*(\d+\.\d+)\s+v:\s*(\d+\.\d+)"):
\* three numeric fields in a row, or no match and all three set to 0.0.
ParseXpsnr(text) ==
    LET hits == {n \in 1..(Len(text) - 2) :
                    /\ text[n].key = "XPSNR y:" /\ text[n].numeric
                    /\ text[n + 1].key = "u:"   /\ text[n + 1].numeric
                    /\ text[n + 2].key = "v:"   /\ text[n + 2].numeric}
    IN  IF hits = {}
        THEN [matched |-> FALSE, y |-> 0, u |-> 0, v |-> 0]
        ELSE LET n == CHOOSE n \in hits : \A h \in hits : n <= h
             IN  [matched |-> TRUE, y |-> text[n].val, u |-> text[n + 1].val,
                  v |-> text[n + 2].val]

\* DstVideo.calculate_psnr_ssim given the backend's stderr.
calculate_psnr_ssim(dst, text) ==
    [dst EXCEPT !.psnr = ParsePsnr(text), !.ssim = ParseSsim(text)]

\* DstVideo.calculate_xpsnr given the backend's stderr.
calculate_xpsnr(dst, text) ==
    LET m == ParseXpsnr(text)
    IN  [dst EXCEPT !.xpsnr_y = m.y, !.xpsnr_u = m.u, !.xpsnr_v = m.v,
                    !.w_xpsnr = WeightedXpsnr(m.y, m.u, m.v)]

(***************************************************************************)
(* bench.py: VideoEnc.                                                     *)
(***************************************************************************)
\* VideoEnc.__init__ with no dst_pth given.
VideoEnc(src, q, encoder) ==
    [src |-> src.path, q |-> q, encoder |-> encoder,
     dst_pth |-> DstPth(src, q, encoder), time |-> 0]

\* enc_cmd as encode() builds it: only x264 and dsv2 have a branch.
enc_cmd(encoder, dst_pth, q) ==
    IF encoder = "x264"
    THEN <<"x264", "--demuxer", "y4m", "--crf", q, "-o", dst_pth, "-">>
    ELSE IF encoder = "dsv2"
    THEN <<"dsv2", "e", "-inp=-", dst_pth, q, "-y">>
    ELSE <<>>

\* ff_cmd: the raw-frame supply, or for snow the encode itself.
ff_cmd(encoder, src, dst_pth, q) ==
    IF encoder # "snow"
    THEN <<"ffmpeg", "-i", src, "-f", "yuv4mpegpipe", "-">>
    ELSE <<"ffmpeg", "-i", src, "-c:v", "snow", "-q:v", q, dst_pth>>

\* The command of the process that writes the bitstream.
EncodeCommand(encoder, src, dst_pth, q) ==
    IF encoder = "snow" THEN ff_cmd(encoder, src, dst_pth, q)
    ELSE enc_cmd(encoder, dst_pth, q)

\* dec_pth when encode() reaches its return statement.
dec_pth(encoder, dst_pth) ==
    IF encoder = "dsv2" THEN dec_y4m_path(dst_pth)
    ELSE IF encoder = "x264" \/ encoder = "snow" THEN dst_pth
    ELSE EmptyPath

\* subprocess.Popen(cmd) raises IndexError on an empty argument list.
PopenRaises(cmd) == cmd = <<>>

\* The disk after the encoder process ran.
AfterEncoder(fsys, dst_pth, a) ==
    IF a.wrote = "none" THEN fsys
    ELSE (dst_pth :> [size |-> a.size, valid |-> (a.wrote = "valid")]) @@ fsys

\* The disk after the dsv2 decoder ran on dst_pth.
AfterDecoder(fsys, dst_pth, d) ==
    IF d = "ok" /\ ArtifactProbeOk(dst_pth, fsys)
    THEN (dec_y4m_path(dst_pth) :> [size |-> 9000, valid |-> TRUE]) @@ fsys
    ELSE fsys

\* Variant: only the bitstream is removed.
remove_output_bitstream_only(fsys, job) ==
    [p \in DOMAIN fsys \ {job.dst_pth} |-> fsys[p]]

\* VideoEnc.remove_output: the disk without dst_pth and, for dsv2, without
\* the decoded sibling when it is there.
remove_output(fsys, job) ==
    LET gone == {job.dst_pth} \cup
                (IF job.encoder = "dsv2" THEN {dec_y4m_path(job.dst_pth)} ELSE {})
    IN  [p \in DOMAIN fsys \ gone |-> fsys[p]]

(***************************************************************************)
(* stats.py: write_stats and the reduction.                                *)
(***************************************************************************)
HeaderLine == [kind |-> "header", text |-> "q,encode_time,output_filesize,psnr,ssim,wxpsnr"]

\* f"{x:.5f}" of the quotient num/den of values counted in 1/unit: the
\* number of 1e-5 steps, to the nearest.
Fmt5(r, unit) ==
    IF unit <= 100000
    THEN (2 * r.num * (100000 \div unit) + r.den) \div (2 * r.den)
    ELSE (2 * r.num + r.den * (unit \div 100000)) \div (2 * r.den * (unit \div 100000))

\* One formatted row: f"{q},{encode_time:.5f},{size},{psnr:.5f},{ssim:.5f},{w_xpsnr:.5f}\n"
RowLine(q, encode_time, size, psnr, ssim, wx) ==
    [kind |-> "row", q |-> q, encode_time |-> Fmt5(encode_time, 1000),
     size |-> size, psnr |-> Fmt5(psnr, 10), ssim |-> Fmt5(ssim, 1000),
     wxpsnr |-> Fmt5(wx, 1000000)]

\* Variant: the file is opened with "w" and gets the header every time.
write_stats_truncating(csv, line) ==
    [exists |-> TRUE, lines |-> <<HeaderLine, line>>]

\* write_stats: the file is created with the header and the row when it is
\* not there, and the row is appended otherwise.
write_stats(csv, line) ==
    IF ~csv.exists
    THEN [exists |-> TRUE, lines |-> <<HeaderLine, line>>]
    ELSE [exists |-> TRUE, lines |-> Append(csv.lines, line)]

\* sum(table[j][q] for j in range(n))
RECURSIVE SumOver(_, _, _)
SumOver(table, q, n) == IF n = 0 THEN 0 ELSE table[n][q] + SumOver(table, q, n - 1)

\* Variant: range(n - 1), the last video left out of the sum.
MeanSkipsLast(table, q, n) == [num |-> SumOver(table, q, n - 1), den |-> n]

\* sum(...) / i
Mean(table, q, n) == [num |-> SumOver(table, q, n), den |-> n]

\* int(sum(...) / i)
TruncMean(table, q, n) == SumOver(table, q, n) \div n

\* Variant: for q in sorted(set(quality_list)).
RECURSIVE Ascending(_)
Ascending(S) ==
    IF S = {} THEN <<>>
    ELSE LET m == CHOOSE x \in S : \A y \in S : x <= y
         IN  <<m>> \o Ascending(S \ {m})

ReductionOrderSorted(ql) == Ascending(Range(ql))

\* The sequence the reduction loop walks: for q in quality_list.
ReductionOrder(ql) == ql

\* {q: 0 for q in quality_list} for _ in range(len(src_pth))
ZeroTables(srcs, ql) == [j \in 1..Len(srcs) |-> [q \in Range(ql) |-> 0]]

(***************************************************************************)
(* stats.py main(): one batch run.                                         *)
(***************************************************************************)
NoErr == [exc |-> "", frame |-> ""]

BatchStart(srcs, ql, encoder, cl) ==
    /\ src_pth = srcs /\ quality_list = ql /\ enc = encoder /\ clean = cl
    /\ i = 0 /\ qi = 1 /\ k = 1 /\ pc = "source"
    /\ s = None /\ e = None /\ v = None
    /\ cumulative_times = ZeroTables(srcs, ql)
    /\ cumulative_sizes = ZeroTables(srcs, ql)
    /\ cumulative_psnr = ZeroTables(srcs, ql)
    /\ cumulative_ssim = ZeroTables(srcs, ql)
    /\ cumulative_wxpsnr = ZeroTables(srcs, ql)
    /\ avg_time = <<>> /\ avg_size = <<>> /\ avg_psnr = <<>>
    /\ avg_ssim = <<>> /\ avg_wxpsnr = <<>>
    /\ returncode = -1 /\ probe_rc = -1 /\ stderr = <<>> /\ err = NoErr

PipeOff == pipe = [at |-> "off"]
WOff == planes = <<>> /\ w_xpsnr = -1

Init ==
    /\ \E srcs \in SourceLists, ql \in QualityLists, encoder \in Encoders,
          cl \in BOOLEAN : BatchStart(srcs, ql, encoder, cl)
    /\ fs = <<>>
    /\ csv_file = [exists |-> FALSE, lines |-> <<>>]
    /\ deviations = 0
    /\ run = 1
    /\ PipeOff /\ WOff

\* An uncaught exception ends main().
Raise(exc, frame) == pc' = "aborted" /\ err' = [exc |-> exc, frame |-> frame]

\* Where main() goes when the current cell is over.
CellOver ==
    IF qi < Len(quality_list)
    THEN qi' = qi + 1 /\ i' = i /\ pc' = "encode"
    ELSE /\ qi' = 1 /\ i' = i + 1
         /\ pc' = IF i + 1 < Len(src_pth) THEN "source" ELSE "reduce"

\* for src in src_pth: s = CoreVideo(src)
NextSource ==
    /\ pc = "source" /\ i < Len(src_pth)
    /\ \E a \in ProbeAnswers(deviations) :
         /\ probe_rc' = IF a = "ok" THEN 0 ELSE 1
         /\ deviations' = deviations + (IF a = "ok" THEN 0 ELSE 1)
         /\ IF ProbeRaises(a)
            THEN /\ Raise("RuntimeError", "CoreVideo.__init__")
                 /\ UNCHANGED <<i, qi, s>>
            ELSE /\ s' = CoreVideo(src_pth[i + 1])
                 /\ err' = err
                 /\ IF quality_list = <<>>
                    THEN /\ i' = i + 1 /\ qi' = qi
                         /\ pc' = IF i + 1 < Len(src_pth) THEN "source" ELSE "reduce"
                    ELSE qi' = 1 /\ i' = i /\ pc' = "encode"
    /\ UNCHANGED <<inputs, k, e, v, tables, avgs, fs, csv_file, returncode, stderr,
                   run, pipe, planes, w_xpsnr>>

\* e = VideoEnc(s, q, enc, enc_args); v = e.encode()
Encode ==
    /\ pc = "encode"
    /\ LET q   == quality_list[qi]
           job == VideoEnc(s, q, enc)
           dst == job.dst_pth
       IN  IF PopenRaises(EncodeCommand(enc, s.path, dst, q))
           THEN /\ Raise("IndexError", "encode")
                /\ e' = job
                /\ UNCHANGED <<v, fs, returncode, probe_rc, deviations>>
           ELSE \E a \in EncodeAnswers(src_pth[i + 1], q, deviations) :
                \E d \in (IF enc = "dsv2" THEN DecodeAnswers(deviations + a.dev)
                                          ELSE {"ok"}) :
                  LET fs1 == AfterEncoder(fs, dst, a)
                      fs2 == IF enc = "dsv2" THEN AfterDecoder(fs1, dst, d) ELSE fs1
                      r   == DstVideo(dec_pth(enc, dst), dst, fs2)
                  IN  /\ fs' = fs2
                      /\ returncode' = a.status
                      /\ e' = [job EXCEPT !.time = a.time]
                      /\ deviations' = deviations + a.dev + (IF d = "ok" THEN 0 ELSE 1)
                      /\ probe_rc' = IF r.raised = "FileNotFoundError" THEN probe_rc
                                     ELSE IF r.raised = "RuntimeError" THEN 1 ELSE 0
                      /\ IF r.raised # ""
                         THEN Raise(r.raised, "DstVideo.__init__") /\ v' = v
                         ELSE pc' = "psnr" /\ err' = err /\ v' = r.video
    /\ UNCHANGED <<inputs, i, qi, k, s, tables, avgs, csv_file, stderr, run,
                   pipe, planes, w_xpsnr>>

\* v.calculate_psnr_ssim(s)
CalcPsnrSsim ==
    /\ pc = "psnr"
    /\ \E rep \in PsnrSsimReports(src_pth[i + 1], quality_list[qi], deviations) :
         /\ stderr' = rep.text
         /\ v' = calculate_psnr_ssim(v, rep.text)
         /\ deviations' = deviations + rep.dev
    /\ pc' = "xpsnr"
    /\ UNCHANGED <<inputs, i, qi, k, s, e, tables, avgs, fs, csv_file, returncode,
                   probe_rc, err, run, pipe, planes, w_xpsnr>>

\* v.calculate_xpsnr(s)
CalcXpsnr ==
    /\ pc = "xpsnr"
    /\ \E rep \in XpsnrReports(src_pth[i + 1], quality_list[qi], deviations) :
         /\ stderr' = rep.text
         /\ v' = calculate_xpsnr(v, rep.text)
         /\ deviations' = deviations + rep.dev
    /\ pc' = "record"
    /\ UNCHANGED <<inputs, i, qi, k, s, e, tables, avgs, fs, csv_file, returncode,
                   probe_rc, err, run, pipe, planes, w_xpsnr>>

\* cumulative_times[i][q] = e.time ... cumulative_wxpsnr[i][q] = v.w_xpsnr
Record ==
    /\ pc = "record"
    /\ LET q == quality_list[qi]
       IN  /\ cumulative_times' = [cumulative_times EXCEPT ![i + 1][q] = e.time]
           /\ cumulative_sizes' = [cumulative_sizes EXCEPT ![i + 1][q] = v.size]
           /\ cumulative_psnr' = [cumulative_psnr EXCEPT ![i + 1][q] = v.psnr]
           /\ cumulative_ssim' = [cumulative_ssim EXCEPT ![i + 1][q] = v.ssim]
           /\ cumulative_wxpsnr' = [cumulative_wxpsnr EXCEPT ![i + 1][q] = v.w_xpsnr]
    /\ IF clean THEN pc' = "remove" /\ UNCHANGED <<i, qi>> ELSE CellOver
    /\ UNCHANGED <<inputs, k, s, e, v, avgs, world, pipe, planes, w_xpsnr>>

\* if clean: e.remove_output()
RemoveOutput ==
    /\ pc = "remove"
    /\ IF e.dst_pth \notin DOMAIN fs
       THEN Raise("FileNotFoundError", "remove_output") /\ UNCHANGED <<fs, i, qi>>
       ELSE fs' = remove_output(fs, e) /\ err' = err /\ CellOver
    /\ UNCHANGED <<inputs, k, s, e, v, tables, avgs, csv_file, returncode, probe_rc,
                   stderr, deviations, run, pipe, planes, w_xpsnr>>

\* for q in quality_list: avg_...[q] = ...; write_stats(csv_out, q, ...)
WriteRow ==
    /\ pc = "reduce" /\ k <= Len(ReductionOrder(quality_list))
    /\ LET q  == ReductionOrder(quality_list)[k]
           t  == Mean(cumulative_times, q, i)
           sz == TruncMean(cumulative_sizes, q, i)
           p  == Mean(cumulative_psnr, q, i)
           ss == Mean(cumulative_ssim, q, i)
           wx == Mean(cumulative_wxpsnr, q, i)
       IN  /\ avg_time' = (q :> t) @@ avg_time
           /\ avg_size' = (q :> sz) @@ avg_size
           /\ avg_psnr' = (q :> p) @@ avg_psnr
           /\ avg_ssim' = (q :> ss) @@ avg_ssim
           /\ avg_wxpsnr' = (q :> wx) @@ avg_wxpsnr
           /\ csv_file' = write_stats(csv_file, RowLine(q, t, sz, p, ss, wx))
    /\ k' = k + 1
    /\ UNCHANGED <<inputs, i, qi, pc, s, e, v, tables, fs, returncode, probe_rc,
                   stderr, err, deviations, run, pipe, planes, w_xpsnr>>

\* main() returns.
Finish ==
    /\ pc = "reduce" /\ k > Len(ReductionOrder(quality_list))
    /\ pc' = "done"
    /\ UNCHANGED <<inputs, i, qi, k, s, e, v, tables, avgs, world,
                   pipe, planes, w_xpsnr>>

Next ==
    \/ NextSource \/ Encode \/ CalcPsnrSsim \/ CalcXpsnr \/ Record
    \/ RemoveOutput \/ WriteRow \/ Finish

Spec == Init /\ [][Next]_vars

(***************************************************************************)
(* Several batch runs, one after the other, on the same CSV path and the   *)
(* same working directory, each without --keep.  The tools answer          *)
(* nominally in every run; a run with the dirac encoder ends in an         *)
(* exception.                                                              *)
(***************************************************************************)
RunSources == {<<1>>}
RunKeeps == {TRUE}

InitRuns ==
    /\ \E srcs \in RunSources, ql \in QualityLists, encoder \in Encoders,
          cl \in RunKeeps : BatchStart(srcs, ql, encoder, cl)
    /\ fs = <<>>
    /\ csv_file = [exists |-> FALSE, lines |-> <<>>]
    /\ deviations = MaxDeviations
    /\ run = 1
    /\ PipeOff /\ WOff

\* The process of the previous run is over; stats.py is started again.
NewRun ==
    /\ pc \in {"done", "aborted"} /\ run < MaxRuns
    /\ run' = run + 1
    /\ \E srcs \in RunSources, ql \in QualityLists, encoder \in Encoders,
          cl \in RunKeeps :
         /\ src_pth' = srcs /\ quality_list' = ql /\ enc' = encoder /\ clean' = cl
         /\ cumulative_times' = ZeroTables(srcs, ql)
         /\ cumulative_sizes' = ZeroTables(srcs, ql)
         /\ cumulative_psnr' = ZeroTables(srcs, ql)
         /\ cumulative_ssim' = ZeroTables(srcs, ql)
         /\ cumulative_wxpsnr' = ZeroTables(srcs, ql)
    /\ i' = 0 /\ qi' = 1 /\ k' = 1 /\ pc' = "source"
    /\ s' = None /\ e' = None /\ v' = None
    /\ avg_time' = <<>> /\ avg_size' = <<>> /\ avg_psnr' = <<>>
    /\ avg_ssim' = <<>> /\ avg_wxpsnr' = <<>>
    /\ returncode' = -1 /\ probe_rc' = -1 /\ stderr' = <<>> /\ err' = NoErr
    /\ UNCHANGED <<fs, csv_file, deviations, pipe, planes, w_xpsnr>>

NextRuns == Next \/ NewRun

SpecRuns == InitRuns /\ [][NextRuns]_vars

(***************************************************************************)
(* One VideoEnc.encode() call, process by process.  pipe holds             *)
(*   at       where encode() is                                            *)
(*   ff       the ffmpeg process of ff_cmd (for snow, the encoder itself)  *)
(*   encp     the process of enc_cmd, reading the pipe from ff             *)
(*   decp     the dsv2 decoder                                             *)
(*   left     frames ff has still to produce                               *)
(*   buf      frames in the pipe between ff and encp                       *)
(*   rd_open  encode() still holds ff_proc.stdout, the pipe's read end     *)
(*   wrote    the bitstream file is on disk                                *)
(*   status   exit status of encp                                          *)
(***************************************************************************)
InitPipe ==
    /\ \E encoder \in Encoders : BatchStart(<<1>>, <<30>>, encoder, TRUE)
    /\ fs = <<>>
    /\ csv_file = [exists |-> FALSE, lines |-> <<>>]
    /\ deviations = 0
    /\ run = 1
    /\ \E n \in 0..MaxFrames :
         pipe = [at |-> "start", ff |-> "none", encp |-> "none", decp |-> "none",
                 left |-> n, buf |-> 0, rd_open |-> FALSE, wrote |-> FALSE,
                 status |-> -1]
    /\ WOff

PipeFrame == UNCHANGED <<batchVars, planes, w_xpsnr>>

\* Some process holds the read end of the pipe.
HasReader == pipe.rd_open \/ pipe.encp = "running"

\* What encode() does once the last process it waits for is over:
\* return DstVideo(dec_pth, self.dst_pth), which needs the bitstream file.
AfterWait == IF pipe.wrote THEN "returned" ELSE "raised"

\* ff_proc = subprocess.Popen(ff_cmd, stdout=PIPE, ...); for snow this is
\* the only process and encode() goes on to communicate() with it.
PopenFf ==
    /\ pipe.at = "start"
    /\ pipe' = [pipe EXCEPT !.ff = "running", !.rd_open = TRUE,
                            !.at = IF enc = "snow" THEN "communicate"
                                   ELSE "spawned_ff"]
    /\ PipeFrame

\* enc_proc = subprocess.Popen(enc_cmd, stdin=ff_proc.stdout, ...)
PopenEnc ==
    /\ pipe.at = "spawned_ff"
    /\ pipe' = IF PopenRaises(enc_cmd(enc, DstPth(CoreVideo(1), 30, enc), 30))
               THEN [pipe EXCEPT !.at = "raised"]
               ELSE [pipe EXCEPT !.encp = "running", !.at = "communicate"]
    /\ PipeFrame

\* ffmpeg writes a raw frame into the pipe; it blocks while the pipe is full.
FfWrite ==
    /\ pipe.ff = "running" /\ enc # "snow"
    /\ pipe.left > 0 /\ pipe.buf < PipeCap /\ HasReader
    /\ pipe' = [pipe EXCEPT !.left = @ - 1, !.buf = @ + 1]
    /\ PipeFrame

\* ffmpeg writes into a pipe nobody reads any more: it dies of SIGPIPE.
FfSigpipe ==
    /\ pipe.ff = "running" /\ enc # "snow"
    /\ pipe.left > 0 /\ ~HasReader
    /\ pipe' = [pipe EXCEPT !.ff = "exited"]
    /\ PipeFrame

\* ffmpeg is through with its input: it closes its output and exits.
FfExit ==
    /\ pipe.ff = "running" /\ pipe.left = 0
    /\ pipe' = [pipe EXCEPT !.ff = "exited"]
    /\ PipeFrame

\* snow: ffmpeg encodes a frame into the destination file.
SnowEncode ==
    /\ pipe.ff = "running" /\ enc = "snow" /\ pipe.left > 0
    /\ pipe' = [pipe EXCEPT !.left = @ - 1, !.wrote = TRUE]
    /\ PipeFrame

\* The encoder takes a frame from the pipe and writes to its output file.
EncRead ==
    /\ pipe.encp = "running" /\ pipe.buf > 0
    /\ pipe' = [pipe EXCEPT !.buf = @ - 1, !.wrote = TRUE]
    /\ PipeFrame

\* The encoder reads end-of-file (the pipe is empty and ffmpeg has closed
\* it), finishes its output and exits with status 0.
EncEof ==
    /\ pipe.encp = "running" /\ pipe.buf = 0 /\ pipe.ff = "exited"
    /\ pipe' = [pipe EXCEPT !.encp = "exited", !.status = 0, !.wrote = TRUE]
    /\ PipeFrame

\* The encoder exits with a non-zero status before the end of its input.
EncFail ==
    /\ pipe.encp = "running"
    /\ pipe' = [pipe EXCEPT !.encp = "exited", !.status = 1]
    /\ PipeFrame

\* _, stderr = enc_proc.communicate() (snow: process.communicate()) is over;
\* dsv2 starts the decoder, the others go on to the return statement.
CommunicateReturns ==
    /\ pipe.at = "communicate"
    /\ IF enc = "snow" THEN pipe.ff = "exited" ELSE pipe.encp = "exited"
    /\ pipe' = IF enc = "dsv2"
               THEN [pipe EXCEPT !.at = "decode", !.decp = "running"]
               ELSE [pipe EXCEPT !.at = AfterWait]
    /\ PipeFrame

\* The dsv2 decoder exits.
DecExit ==
    /\ pipe.decp = "running"
    /\ pipe' = [pipe EXCEPT !.decp = "exited"]
    /\ PipeFrame

\* _, dec_stderr = dec_proc.communicate() is over.
DecodeReturns ==
    /\ pipe.at = "decode" /\ pipe.decp = "exited"
    /\ pipe' = [pipe EXCEPT !.at = AfterWait]
    /\ PipeFrame

\* encode() is left: ff_proc goes out of scope and its pipe ends are closed.
DropFfProc ==
    /\ pipe.at \in {"returned", "raised"} /\ pipe.rd_open
    /\ pipe' = [pipe EXCEPT !.rd_open = FALSE, !.buf = 0]
    /\ PipeFrame

NextPipe ==
    \/ PopenFf \/ PopenEnc \/ FfWrite \/ FfSigpipe \/ FfExit \/ SnowEncode
    \/ EncRead \/ EncEof \/ EncFail \/ CommunicateReturns \/ DecExit
    \/ DecodeReturns \/ DropFfProc

SpecPipe == InitPipe /\ [][NextPipe]_vars

(***************************************************************************)
(* The weighted-XPSNR derivation of calculate_xpsnr on plane values 0.0,   *)
(* LowDb and LowDb + 0.5 dB, and HighDb - 2 .. HighDb dB in steps of half  *)
(* a dB.                                                                   *)
(***************************************************************************)
PlaneValues ==
    {0, 10 * LowDb, 10 * LowDb + 5} \cup {5 * d : d \in (2 * HighDb - 4)..(2 * HighDb)}

InitW ==
    /\ BatchStart(<<1>>, <<>>, "x264", TRUE)
    /\ fs = <<>>
    /\ csv_file = [exists |-> FALSE, lines |-> <<>>]
    /\ deviations = 0
    /\ run = 1
    /\ PipeOff
    /\ planes \in PlaneValues \X PlaneValues \X PlaneValues
    /\ w_xpsnr = -1

\* lines 165-170 of calculate_xpsnr on self.xpsnr_y, self.xpsnr_u, self.xpsnr_v
Derive ==
    /\ w_xpsnr = -1
    /\ w_xpsnr' = WeightedXpsnr(planes[1], planes[2], planes[3])
    /\ UNCHANGED <<batchVars, pipe, planes>>

NextW == Derive

SpecW == InitW /\ [][NextW]_vars

(***************************************************************************)
(* Properties.                                                             *)
(***************************************************************************)
\* The data rows of the CSV file, without the header line.
Rows == IF csv_file.exists THEN Tail(csv_file.lines) ELSE <<>>

\* The sum of one table's entries for q over all its videos.
RECURSIVE TotalOf(_, _, _)
TotalOf(table, q, J) ==
    IF J = {} THEN 0
    ELSE LET j == CHOOSE x \in J : TRUE
         IN  table[j][q] + TotalOf(table, q, J \ {j})

Total(table, q) == TotalOf(table, q, DOMAIN table)

Abs(x) == IF x < 0 THEN -x ELSE x

\* C1: a batch run that completes has emitted exactly len(quality_list)
\* summary rows, and the n-th row carries quality_list[n]: the rows follow the
\* input order, unsorted and with duplicates kept.  No row is written before
\* the reduction, and during it the rows written so far are the first k - 1.
C1_RowsFollowInputOrder ==
    /\ pc \notin {"reduce", "done"} => Rows = <<>>
    /\ pc \in {"reduce", "done"} =>
         /\ Len(Rows) = k - 1
         /\ Len(Rows) <= Len(quality_list)
         /\ \A n \in 1..Len(Rows) :
              Rows[n].kind = "row" /\ Rows[n].q = quality_list[n]
    /\ pc = "done" => Len(Rows) = Len(quality_list)

C1_Witness ==
    /\ pc = "done" /\ quality_list = <<30, 20>>
    /\ Len(Rows) = 2 /\ Rows[1].q = 30 /\ Rows[2].q = 20

\* C2: every summary row written for q holds, for time, PSNR, SSIM and
\* weighted XPSNR, the arithmetic mean over all N videos of the values in the
\* tables at q, and for the size the mean of the N sizes truncated to an
\* integer; every video's table has exactly one entry per quality value, and
\* in a run where the tools answered nominally that entry is the video's own
\* measurement at q.
C2_RowIsMeanOverVideos ==
    LET N == Len(src_pth) IN
    /\ \A j \in 1..N :
         /\ DOMAIN cumulative_times[j] = Range(quality_list)
         /\ DOMAIN cumulative_sizes[j] = Range(quality_list)
         /\ DOMAIN cumulative_psnr[j] = Range(quality_list)
         /\ DOMAIN cumulative_ssim[j] = Range(quality_list)
         /\ DOMAIN cumulative_wxpsnr[j] = Range(quality_list)
    /\ \A q \in DOMAIN avg_psnr :
         /\ avg_time[q].den > 0
         /\ avg_time[q].num * N = avg_time[q].den * Total(cumulative_times, q)
         /\ avg_psnr[q].num * N = avg_psnr[q].den * Total(cumulative_psnr, q)
         /\ avg_ssim[q].num * N = avg_ssim[q].den * Total(cumulative_ssim, q)
         /\ avg_wxpsnr[q].num * N = avg_wxpsnr[q].den * Total(cumulative_wxpsnr, q)
         /\ avg_size[q] * N <= Total(cumulative_sizes, q)
         /\ Total(cumulative_sizes, q) < (avg_size[q] + 1) * N
    /\ \A n \in 1..Len(Rows) :
         LET q == Rows[n].q IN
         /\ 2 * Abs(Rows[n].encode_time * N - 100 * Total(cumulative_times, q)) <= N
         /\ 2 * Abs(Rows[n].psnr * N - 10000 * Total(cumulative_psnr, q)) <= N
         /\ 2 * Abs(Rows[n].ssim * N - 100 * Total(cumulative_ssim, q)) <= N
         /\ 2 * Abs(10 * Rows[n].wxpsnr * N - Total(cumulative_wxpsnr, q)) <= 10 * N
         /\ Rows[n].size * N <= Total(cumulative_sizes, q)
         /\ Total(cumulative_sizes, q) < (Rows[n].size + 1) * N
    /\ (pc = "done" /\ deviations = 0) =>
         \A j \in 1..N : \A q \in Range(quality_list) :
            /\ cumulative_times[j][q] = NominalTime(src_pth[j], q)
            /\ cumulative_sizes[j][q] = NominalSize(src_pth[j], q)
            /\ cumulative_psnr[j][q] = NominalPsnr(src_pth[j], q)
            /\ cumulative_ssim[j][q] = NominalSsim(src_pth[j], q)
            /\ cumulative_wxpsnr[j][q] > 0

C2_Witness ==
    /\ pc = "done" /\ Len(src_pth) = 2 /\ 30 \in DOMAIN avg_size
    /\ cumulative_wxpsnr[1][30] # cumulative_wxpsnr[2][30]
    /\ 2 * avg_wxpsnr[30].num = avg_wxpsnr[30].den *
                                (cumulative_wxpsnr[1][30] + cumulative_wxpsnr[2][30])
    /\ 2 * avg_size[30] < cumulative_sizes[1][30] + cumulative_sizes[2][30]

\* No numeric field with this key in a report.
Lacks(text, key) == \A n \in 1..Len(text) : ~(text[n].key = key /\ text[n].numeric)

\* No "XPSNR y: u: v:" run of three numeric fields in a report.
LacksXpsnr(text) ==
    \A n \in 1..(Len(text) - 2) :
       ~(/\ text[n].key = "XPSNR y:" /\ text[n].numeric
         /\ text[n + 1].key = "u:" /\ text[n + 1].numeric
         /\ text[n + 2].key = "v:" /\ text[n + 2].numeric)

C3_MissIsZero ==
    /\ pc = "xpsnr" =>
         /\ Lacks(stderr, "average:") => v.psnr = 0
         /\ Lacks(stderr, "All:") => v.ssim = 0
         /\ err = NoErr
    /\ pc = "record" =>
         /\ LacksXpsnr(stderr) => v.xpsnr_y = 0 /\ v.xpsnr_u = 0 /\ v.xpsnr_v = 0
         /\ err = NoErr
    /\ pc = "aborted" => err.frame \in {"CoreVideo.__init__", "encode",
                                        "DstVideo.__init__", "remove_output"}
    /\ pc = "done" => /\ Len(Rows) = Len(quality_list)
                      /\ \A n \in 1..Len(Rows) : Rows[n].q = quality_list[n]

C3_MetricPassGoesOn ==
    /\ pc = "psnr" => pc' = "xpsnr"
    /\ pc = "xpsnr" => pc' = "record"
    /\ pc = "record" =>
         /\ pc' \in {"remove", "encode", "source", "reduce"}
         /\ cumulative_psnr'[i + 1][quality_list[qi]] = v.psnr
         /\ cumulative_ssim'[i + 1][quality_list[qi]] = v.ssim
         /\ cumulative_wxpsnr'[i + 1][quality_list[qi]] = v.w_xpsnr

\* C3: when the report of the psnr/ssim pass lacks the PSNR (the SSIM)
\* pattern, psnr (ssim) is 0 after calculate_psnr_ssim; when the report of
\* the xpsnr pass lacks the XPSNR y/u/v pattern, the three plane fields are 0
\* after calculate_xpsnr.  Neither pass raises: main() always goes on from a
\* metric pass to the next step of the cell and records the values, an
\* exception never comes from a metric pass, and a batch that completes has
\* written every summary row.
C3_ParseMissIsZeroAndBatchGoesOn ==
    [](C3_MissIsZero) /\ [][C3_MetricPassGoesOn]_vars

C3_Witness ==
    /\ pc = "done" /\ Len(src_pth) = 2 /\ Len(quality_list) = 2
    /\ quality_list[1] # quality_list[2]
    /\ cumulative_psnr[1][quality_list[1]] = 0
    /\ cumulative_psnr[2][quality_list[2]] > 0
    /\ Len(Rows) = 2

\* The comparison path of the current job, from its destination path.
ComparisonPath ==
    IF enc = "dsv2"
    THEN [stem |-> Append(e.dst_pth.stem, "_decoded"), ext |-> "y4m"]
    ELSE e.dst_pth

\* C4 as claimed: when the encode process exited non-zero, encode() does not
\* raise and main() goes on to the metric computation.
C4_NonZeroExitStillReturns ==
    returncode > 0 => ~(pc = "aborted" /\ err.frame = "DstVideo.__init__")

\* C4 as amended: the exit status is never looked at.  After an encode
\* process that exited non-zero, encode() returns a DstVideo (and main() goes
\* on to the metric computation) exactly when the bitstream file is on disk
\* and the comparison path can be probed; with no bitstream file the size
\* query raises FileNotFoundError, with a comparison file that is missing or
\* unreadable the probe raises RuntimeError, and either ends main().
C4_ReturnsIffArtifactsUsable ==
    returncode > 0 =>
      /\ pc = "psnr" =>
           /\ e.dst_pth \in DOMAIN fs
           /\ ComparisonPath \in DOMAIN fs /\ fs[ComparisonPath].valid
           /\ v.enc_path = e.dst_pth /\ v.path = ComparisonPath
           /\ v.size = fs[e.dst_pth].size
           /\ err = NoErr
      /\ (pc = "aborted" /\ err.frame = "DstVideo.__init__") =>
           IF e.dst_pth \notin DOMAIN fs
           THEN err.exc = "FileNotFoundError"
           ELSE /\ err.exc = "RuntimeError"
                /\ (ComparisonPath \notin DOMAIN fs \/ ~fs[ComparisonPath].valid)

C4_Witness ==
    /\ returncode > 0 /\ pc = "psnr" /\ err = NoErr
    /\ v.enc_path = e.dst_pth

\* C5 as claimed: a probe failure stops only the video it occurs for, the
\* batch itself is not ended by it.
C5_ProbeFailureKeepsBatchGoing ==
    probe_rc > 0 => pc # "aborted"

\* C5 as amended: a probe failure for any video ends the whole batch: the
\* RuntimeError leaves main(), no later cell or video is processed, the
\* reduction is never reached and no summary row is written.
C5_ProbeFailureEndsBatch ==
    probe_rc > 0 =>
      /\ pc = "aborted" /\ err.exc = "RuntimeError"
      /\ k = 1 /\ avg_psnr = <<>> /\ avg_size = <<>>
      /\ ~csv_file.exists
      /\ ~ENABLED Next

C5_Witness ==
    /\ probe_rc > 0 /\ err.frame = "CoreVideo.__init__"
    /\ Len(src_pth) = 2 /\ i = 1 /\ Len(quality_list) = 2
    /\ cumulative_psnr[1][quality_list[1]] > 0
    /\ ~csv_file.exists

\* The files encode() leaves for a job: the bitstream and, for dsv2, the
\* decoded sibling.
Artifacts(dst) ==
    {dst} \cup (IF enc = "dsv2"
                THEN {[stem |-> Append(dst.stem, "_decoded"), ext |-> "y4m"]}
                ELSE {})

\* The destination path of the cell (video j, quality q).
CellPath(j, q) ==
    [stem |-> <<src_pth[j], enc, q>>,
     ext |-> CASE enc = "snow" -> "avi"
               [] enc = "dsv2" -> "dsv"
               [] enc = "dirac" -> "mkv"
               [] OTHER -> "264"]

C6_FilesOfCells ==
    /\ pc \in {"psnr", "xpsnr", "record", "remove"} =>
         /\ Artifacts(e.dst_pth) \subseteq DOMAIN fs
         /\ e.dst_pth = CellPath(i + 1, quality_list[qi])
         /\ clean => DOMAIN fs = Artifacts(e.dst_pth)
    /\ (clean /\ pc \in {"source", "encode", "reduce", "done"}) => DOMAIN fs = {}
    /\ (~clean /\ pc \in {"reduce", "done"}) =>
         \A j \in 1..Len(src_pth) : \A q \in Range(quality_list) :
            Artifacts(CellPath(j, q)) \subseteq DOMAIN fs
    /\ (clean /\ pc = "aborted") =>
         IF e = None THEN DOMAIN fs = {}
         ELSE DOMAIN fs \subseteq Artifacts(e.dst_pth)

C6_RemovalStep ==
    /\ ~clean => DOMAIN fs \subseteq DOMAIN fs'
    /\ DOMAIN fs \ DOMAIN fs' # {} =>
         /\ clean /\ pc = "remove"
         /\ cumulative_psnr[i + 1][quality_list[qi]] = v.psnr
         /\ cumulative_wxpsnr[i + 1][quality_list[qi]] = v.w_xpsnr
         /\ cumulative_sizes[i + 1][quality_list[qi]] = v.size
         /\ DOMAIN fs' = {}
         /\ pc' \in {"encode", "source", "reduce"}

\* C6 as claimed: in a run without --keep, when the batch has ended no file
\* it produced is on disk.
C6_NoArtifactWhenBatchEnds ==
    (clean /\ pc \in {"done", "aborted"}) => DOMAIN fs = {}

\* C6 as amended: without --keep, the bitstream of a cell and, for dsv2, its
\* decoded sibling are on disk while the metrics of the cell are computed and
\* recorded, are deleted only after that, in the remove step of the same
\* cell, and are gone before the next cell is encoded, so that a batch that
\* completes leaves no file; a batch ended by an exception leaves at most the
\* files of the cell it was at.  With --keep no step removes a file and
\* every cell's files are on disk when the reduction starts.
C6_OutputsRemovedPerCellUnlessKept ==
    [](C6_FilesOfCells) /\ [][C6_RemovalStep]_vars

C6_Witness ==
    /\ clean /\ enc = "dsv2" /\ pc = "encode" /\ qi = 2
    /\ DOMAIN fs = {} /\ returncode = 0
    /\ quality_list[1] \in DOMAIN cumulative_psnr[i + 1]
    /\ cumulative_psnr[i + 1][quality_list[1]] > 0

C7_FileShape ==
    /\ ~csv_file.exists => csv_file.lines = <<>>
    /\ csv_file.exists =>
         /\ Len(csv_file.lines) >= 2
         /\ csv_file.lines[1] = HeaderLine
         /\ \A n \in 2..Len(csv_file.lines) : csv_file.lines[n].kind = "row"
    /\ pc = "done" => k = Len(quality_list) + 1

C7_AppendStep ==
    LET old == Rows
        new == IF csv_file'.exists THEN Tail(csv_file'.lines) ELSE <<>>
    IN  /\ csv_file.exists => csv_file'.exists
        /\ Len(new) >= Len(old)
        /\ SubSeq(new, 1, Len(old)) = old
        /\ Len(new) - Len(old) = (IF run' = run THEN k' - k ELSE 0)
        /\ Len(new) > Len(old) =>
             /\ Len(new) = Len(old) + 1
             /\ new[Len(new)].q = quality_list[k]
             /\ pc = "reduce"

\* C7: across any number of runs on the same output file, the header line is
\* the first line of the file and occurs nowhere else; every step of the
\* reduction loop appends exactly one row, for the quality value it is at,
\* and leaves all earlier lines as they were, so that a run that completes
\* has appended one row per entry of its quality list.  (The file comes into
\* being with the first row written.)
C7_HeaderOnceRowsAppended ==
    [](C7_FileShape) /\ [][C7_AppendStep]_vars

C7_Witness ==
    /\ run = 2 /\ pc = "done" /\ Len(quality_list) = 2
    /\ Len(csv_file.lines) = 5
    /\ csv_file.lines[1] = HeaderLine
    /\ \A n \in 2..5 : csv_file.lines[n].kind = "row"

\* A plane value, given in tenths of a dB, in millionths of a dB.
Micro(p) == 100000 * p

C9_ReturnsAfterBothExited ==
    (pipe.at = "returned" /\ enc # "snow") =>
       (pipe.ff = "exited" /\ pipe.encp = "exited")

\* C10 as claimed: for every encoder of the choices list the job has a
\* non-empty encoder command, encode() returns a DstVideo whose enc_path is
\* the destination path, and its comparison path is the _decoded sibling for
\* dsv2, the destination path otherwise, and never empty.
C10_EveryEncoderHasCommandAndPath ==
    e # None =>
      /\ enc_cmd(e.encoder, e.dst_pth, e.q) # <<>> \/ e.encoder = "snow"
      /\ EncodeCommand(e.encoder, e.src, e.dst_pth, e.q) # <<>>
      /\ dec_pth(e.encoder, e.dst_pth) # EmptyPath
      /\ dec_pth(e.encoder, e.dst_pth) = ComparisonPath
      /\ ~(pc = "aborted" /\ err.frame = "encode")
      /\ pc = "psnr" => (v.enc_path = e.dst_pth /\ v.path = ComparisonPath)

=============================================================================
